---- MODULE Spec2Model ----
(***************************************************************************)
(* A model of .circleci/github_api_calls.py: one process invocation of the *)
(* command-line dispatcher (main), the operation it invokes, and the       *)
(* network requests that operation issues against the remote API.          *)
(*                                                                         *)
(* Text is a sequence of one-character strings, so that the regular        *)
(* expressions and the str methods of the source are computed character by *)
(* character.  Python's None is the value None below.  The organization    *)
(* and the repository are the same in every request of one invocation and  *)
(* are left out of the endpoints.                                          *)
(***************************************************************************)
EXTENDS Integers, Sequences, FiniteSets, TLC

VARIABLES
    args,       \* argparse.Namespace of main: the command-line flags
    remote,     \* what the remote API answers: commit, commits, issues, ...
    today,      \* pendulum.now().format("YYYY-MM-DD")
    labels_on,  \* remote label state: the set of <<pull request, label>> pairs
    pc,         \* "main" | "run" | "done"
    invoked,    \* name of the function main handed the parameters to, or "None"
    kw,         \* keyword arguments bound by the invoked function
    code,       \* the steps the invoked function still has to execute
    locals,     \* local variables of the invoked function that outlive a request
    calls,      \* trace of the functions whose body started executing
    requests,   \* trace of the network requests issued
    result,     \* the return value of the invoked function
    error       \* the exception that ended the invocation, if any

vars == << args, remote, today, labels_on, pc, invoked, kw, code, locals,
           calls, requests, result, error >>

-----------------------------------------------------------------------------
(* Values *)

None == << "None" >>

Truthy(v) == v # None /\ v # << >>

RECURSIVE Flatten(_)
Flatten(ss) == IF ss = << >> THEN << >> ELSE Head(ss) \o Flatten(Tail(ss))

SeqsUpTo(S, n) == UNION { [1..k -> S] : k \in 0..n }

-----------------------------------------------------------------------------
(* Parsers *)

\* ".+?" of the pattern, the group opened at i + 2 holding k characters so
\* far: the index of the last character of the group, or 0 when the match
\* that starts at i fails.
RECURSIVE lazy_group_end(_, _, _)
lazy_group_end(commit, i, k) ==
    IF i + 2 + k > Len(commit) THEN 0
    ELSE IF commit[i + 1 + k] = "\n" THEN 0
    ELSE IF commit[i + 2 + k] = ")" THEN i + 1 + k
    ELSE lazy_group_end(commit, i, k + 1)

\* re.search(r"\(#(.+?)\)", commit) tried at the positions i, i + 1, ...:
\* group(1) of the leftmost match, or None.
RECURSIVE re_search_pr(_, _)
re_search_pr(commit, i) ==
    IF i + 1 > Len(commit) THEN None
    ELSE IF commit[i] = "(" /\ commit[i + 1] = "#"
            /\ lazy_group_end(commit, i, 1) # 0
         THEN SubSeq(commit, i + 2, lazy_group_end(commit, i, 1))
         ELSE re_search_pr(commit, i + 1)

\* A faulty variant of parse_commit_for_pr: the group of the last match, not the first.
RECURSIVE re_search_pr_last(_, _)
re_search_pr_last(commit, i) ==
    IF i < 1 THEN None
    ELSE IF i + 1 <= Len(commit) /\ commit[i] = "(" /\ commit[i + 1] = "#"
            /\ lazy_group_end(commit, i, 1) # 0
         THEN SubSeq(commit, i + 2, lazy_group_end(commit, i, 1))
         ELSE re_search_pr_last(commit, i - 1)

parse_commit_for_pr_last(commit) == re_search_pr_last(commit, Len(commit))

parse_commit_for_pr(commit) == re_search_pr(commit, 1)

Digits == { "0", "1", "2", "3", "4", "5", "6", "7", "8", "9" }

\* "\d+" tried at j, greedy: the index of the last digit of the run that
\* starts at j, or j - 1 when message[j] is no digit.
RECURSIVE digits_end(_, _)
digits_end(message, j) ==
    IF j <= Len(message) /\ message[j] \in Digits
    THEN digits_end(message, j + 1)
    ELSE j - 1

\* re.findall(r"#\d+", message) from position i on: the non-overlapping
\* matches, left to right.
RECURSIVE re_findall_prs(_, _)
re_findall_prs(message, i) ==
    IF i > Len(message) THEN << >>
    ELSE IF message[i] = "#" /\ digits_end(message, i + 1) > i
         THEN << SubSeq(message, i, digits_end(message, i + 1)) >>
              \o re_findall_prs(message, digits_end(message, i + 1) + 1)
         ELSE re_findall_prs(message, i + 1)

parse_message_for_prs(message) ==
    IF ~Truthy(message) THEN << >> ELSE re_findall_prs(message, 1)

\* str.lstrip("#") and str.strip("#")
RECURSIVE lstrip_hash(_)
lstrip_hash(s) ==
    IF s # << >> /\ Head(s) = "#" THEN lstrip_hash(Tail(s)) ELSE s

RECURSIVE rstrip_hash(_)
rstrip_hash(s) ==
    IF s # << >> /\ s[Len(s)] = "#"
    THEN rstrip_hash(SubSeq(s, 1, Len(s) - 1))
    ELSE s

strip_hash(s) == rstrip_hash(lstrip_hash(s))

\* str.startswith
startswith(s, prefix) ==
    Len(s) >= Len(prefix) /\ SubSeq(s, 1, Len(prefix)) = prefix

-----------------------------------------------------------------------------
(* Authentication and validation *)

\* A faulty variant of build_headers: no exception when no credentials are given.
build_headers_unchecked(token, username, password) ==
    IF Truthy(token)
    THEN [mode |-> "token", cred |-> << token >>]
    ELSE [mode |-> "basic", cred |-> << username, password >>]

\* The headers, or mode "raise" for the Exception of line 86.
build_headers(token, username, password) ==
    IF Truthy(token)
    THEN [mode |-> "token", cred |-> << token >>]
    ELSE IF Truthy(username) /\ Truthy(password)
         THEN [mode |-> "basic", cred |-> << username, password >>]
         ELSE [mode |-> "raise", cred |-> << >>]

NoError == [type |-> "None", at |-> "", input |-> ""]

Raise(type, at, input) == [type |-> type, at |-> at, input |-> input]

\* args.extras is None (no -e flag), or the raw string with what json.loads
\* makes of it: kind "invalid" (json.loads raises ValueError), "nonobject"
\* (a JSON value that is no object) or "object" (obj: its keys and values).
NoExtras == [kind |-> "None", raw |-> "", obj |-> << >>]

\* json.loads(json_str): "ok", or the exception it raises.
json_loads(extras) ==
    CASE extras.kind = "None" -> "TypeError"
      [] extras.kind = "invalid" -> "ValueError"
      [] OTHER -> "ok"

\* TRUE, FALSE, or "TypeError" when json.loads raises what is_json does not catch.
is_json(extras) ==
    CASE json_loads(extras) = "ok" -> "True"
      [] json_loads(extras) = "ValueError" -> "False"
      [] OTHER -> json_loads(extras)

\* The exception validate_args ends with, or NoError.
validate_args(a) ==
    IF Truthy(a.token) /\ Truthy(a.username)
    THEN Raise("ValueError", "validate_args:auth", "")
    ELSE IF is_json(a.extras) = "False"
         THEN Raise("ValueError", "validate_args:extras", a.extras.raw)
         ELSE IF is_json(a.extras) # "True"
              THEN Raise(is_json(a.extras), "is_json", "")
              ELSE NoError

-----------------------------------------------------------------------------
(* The registry and the module's namespace *)

\* The keys of available_commands.
available_commands ==
    { "add_comment", "add_labels", "close_issue", "delete_labels",
      "dimiss_single_review", "dismiss_all_reviews", "get_commit_message",
      "get_deploy_issue_number", "get_prs_to_deploy", "label_merged_pr",
      "label_prs_mentioned_in_commits", "list_commits", "list_deleted_files",
      "open_pr" }

\* The functions of the module that take **kwargs, each with the parameters
\* that have no default.
required_parameters ==
    [ add_comment |-> { "organization", "repository", "pull_request_id" },
      add_labels |-> { "organization", "repository", "pull_request_id" },
      close_issue |-> { "issue", "organization", "repository" },
      delete_labels |-> { "organization", "repository", "pull_request_id" },
      dismiss_single_review |->
          { "organization", "repository", "pull_request_id", "review_id" },
      dismiss_all_reviews |-> { "organization", "repository", "pull_request_id" },
      get_commit_message |-> { "organization", "repository", "commit_id" },
      get_deploy_issue_number |-> { "organization", "repository" },
      get_prs_to_deploy |-> { "organization", "repository" },
      label_merged_pr |-> { "organization", "repository", "commit_id" },
      label_prs_mentioned_in_commits |-> { "organization", "repository" },
      list_commits |-> { "organization", "repository", "pull_request_id" },
      list_deleted_files |-> { "organization", "repository", "commit_id" },
      open_pr |-> { "organization", "repository", "head", "base", "title" },
      get_issue_close_date |-> { "issue", "organization", "repository" },
      get_issues |-> { "organization", "repository" },
      get_pr_id_from_commit_id |-> { "organization", "repository", "commit_id" },
      get_target_branch |-> { "organization", "repository", "pull_request_id" } ]

kwargs_functions == DOMAIN required_parameters

\* The other names globals() holds: functions without **kwargs, and
\* modules, strings and the registry, which cannot be called.
other_globals ==
    { "build_headers", "format_epilog", "parse_commit_for_pr", "is_json",
      "validate_args", "parse_message_for_prs", "main",
      "available_commands", "command_template", "base_url", "argparse",
      "json", "logging", "sys", "requests", "re", "pendulum" }

module_globals == kwargs_functions \cup other_globals

\* The defaults of the keyword parameters of every function.
T(c) == << c >>

defaults(fn) ==
    [ token |-> None, username |-> None, password |-> None ] @@
    CASE fn = "add_comment" -> [ message |-> T("m") ]
      [] fn \in { "add_labels", "delete_labels" } -> [ labels |-> << T("t") >> ]
      [] fn \in { "dismiss_single_review", "dismiss_all_reviews" } ->
            [ message |-> T("m") ]
      [] fn = "label_merged_pr" ->
            [ labels_to_add |-> << T("M") >>, labels_to_delete |-> << T("I") >> ]
      [] fn = "label_prs_mentioned_in_commits" ->
            [ pull_request_id |-> None, commit_id |-> None,
              labels_to_add |-> << T("D") >>, labels_to_delete |-> << T("U") >> ]
      [] fn = "open_pr" -> [ body |-> << >> ]
      [] OTHER -> << >>

\* vars(args): the flags as a dictionary.
vars_args(a) ==
    [ organization |-> T("o"), repository |-> T("r"), token |-> a.token,
      username |-> a.username, password |-> a.password,
      pull_request_id |-> a.pull_request_id, command |-> a.command,
      extras |-> a.extras.raw ]

\* {**vars(args), **json.loads(args.extras)}: the keys of extras win.
merge_parameters(a) == a.extras.obj @@ vars_args(a)

-----------------------------------------------------------------------------
(* Steps of a function body.  A body is a sequence of steps: "call", the   *)
(* entry of a function up to and including its build_headers, and          *)
(* "request", one requests.get/post/patch/put/delete with the               *)
(* raise_for_status that follows it; `then` names the code that runs on    *)
(* the response.                                                           *)

Call(fn, k, id, labels) ==
    [ op |-> "call", fn |-> fn,
      hdr |-> build_headers(k.token, k.username, k.password),
      verb |-> "", endpoint |-> "", id |-> id, sub |-> << >>,
      labels |-> labels, then |-> "" ]

Request(fn, k, verb, endpoint, id, sub, labels, then) ==
    [ op |-> "request", fn |-> fn,
      hdr |-> build_headers(k.token, k.username, k.password),
      verb |-> verb, endpoint |-> endpoint, id |-> id, sub |-> sub,
      labels |-> labels, then |-> then ]

\* token, username and password as a caller hands them on.
Creds(k) == [ token |-> k.token, username |-> k.username, password |-> k.password ]

add_comment(k) ==
    << Call("add_comment", k, k.pull_request_id, << >>),
       Request("add_comment", k, "POST", "issues/{}/comments",
               k.pull_request_id, << >>, << >>, "return") >>

add_labels(k) ==
    << Call("add_labels", k, k.pull_request_id, k.labels),
       Request("add_labels", k, "POST", "issues/{}/labels",
               k.pull_request_id, << >>, k.labels, "return") >>

close_issue(k) ==
    << Call("close_issue", k, k.issue, << >>),
       Request("close_issue", k, "PATCH", "issues/{}",
               lstrip_hash(k.issue), << >>, << >>, "return_json") >>

\* A faulty variant of delete_labels: the labels are deleted last to first.
delete_labels_reversed(k) ==
    << Call("delete_labels", k, k.pull_request_id, k.labels) >> \o
    [ i \in 1..Len(k.labels) |->
        Request("delete_labels", k, "DELETE", "issues/{}/labels/{}",
                k.pull_request_id, k.labels[Len(k.labels) + 1 - i], << >>,
                "return") ]

delete_labels(k) ==
    << Call("delete_labels", k, k.pull_request_id, k.labels) >> \o
    [ i \in 1..Len(k.labels) |->
        Request("delete_labels", k, "DELETE", "issues/{}/labels/{}",
                k.pull_request_id, k.labels[i], << >>, "return") ]

dismiss_single_review(k) ==
    << Call("dismiss_single_review", k, k.pull_request_id, << >>),
       Request("dismiss_single_review", k, "PUT",
               "pulls/{}/reviews/{}/dismissals",
               k.pull_request_id, k.review_id, << >>, "return") >>

dismiss_all_reviews(k) ==
    << Call("dismiss_all_reviews", k, k.pull_request_id, << >>),
       Request("dismiss_all_reviews", k, "GET", "pulls/{}/reviews",
               k.pull_request_id, << >>, << >>, "dismiss_all_reviews") >>

\* Lines 412-425, on the response: one dismiss_single_review per review
\* that has an id, called with five positional arguments, so that
\* pull_request_id is bound to the token, review_id to the pull request,
\* message to the review id, and token, username and password keep their
\* default None.
dismiss_all_reviews_loop(k, reviews) ==
    LET review_ids == SelectSeq(reviews, LAMBDA r : r # None)
    IN Flatten([ i \in 1..Len(review_ids) |->
           dismiss_single_review(
               [ pull_request_id |-> k.token, review_id |-> k.pull_request_id,
                 message |-> review_ids[i], token |-> None,
                 username |-> None, password |-> None ]) ])

get_commit_message(k, then) ==
    << Call("get_commit_message", k, k.commit_id, << >>),
       Request("get_commit_message", k, "GET", "commits/{}",
               k.commit_id, << >>, << >>, then) >>

get_issue_close_date(k, then) ==
    << Call("get_issue_close_date", k, k.issue, << >>),
       Request("get_issue_close_date", k, "GET", "issues/{}",
               lstrip_hash(k.issue), << >>, << >>, then) >>

get_issues(k, then) ==
    << Call("get_issues", k, None, << >>),
       Request("get_issues", k, "GET", "issues", None, << >>, << >>, then) >>

get_pr_id_from_commit_id(k, then) ==
    get_commit_message([ commit_id |-> k.commit_id ] @@ Creds(k), then)

get_target_branch(k) ==
    << Call("get_target_branch", k, k.pull_request_id, << >>),
       Request("get_target_branch", k, "GET", "pulls/{}",
               k.pull_request_id, << >>, << >>, "get_target_branch") >>

list_commits(k, then) ==
    << Call("list_commits", k, k.pull_request_id, << >>),
       Request("list_commits", k, "GET", "pulls/{}/commits",
               k.pull_request_id, << >>, << >>, then) >>

list_deleted_files(k) ==
    << Call("list_deleted_files", k, k.commit_id, << >>),
       Request("list_deleted_files", k, "GET", "commits/{}",
               k.commit_id, << >>, << >>, "list_deleted_files") >>

open_pr(k) ==
    << Call("open_pr", k, None, << >>),
       Request("open_pr", k, "POST", "pulls", None, << >>, << >>,
               "return_json") >>

get_deploy_issue_number(k) == get_issues(Creds(k), "get_deploy_issue_number")

get_prs_to_deploy(k) ==
    << Call("get_prs_to_deploy", k, None, << >>) >> \o
    get_issues(Creds(k), "get_prs_to_deploy_issues")

label_merged_pr(k) ==
    get_commit_message([ commit_id |-> k.commit_id ] @@ Creds(k),
                       "label_merged_pr")

\* A faulty variant of add_then_delete: the labels are deleted before they are added.
delete_then_add(k, pr_id) ==
    delete_labels([ pull_request_id |-> pr_id, labels |-> k.labels_to_delete ]
                  @@ Creds(k)) \o
    add_labels([ pull_request_id |-> pr_id, labels |-> k.labels_to_add ]
               @@ Creds(k))

\* Lines 552-569 and 612-629: add_labels, then delete_labels, for one id.
add_then_delete(k, pr_id) ==
    add_labels([ pull_request_id |-> pr_id, labels |-> k.labels_to_add ]
               @@ Creds(k)) \o
    delete_labels([ pull_request_id |-> pr_id, labels |-> k.labels_to_delete ]
                  @@ Creds(k))

\* Lines 549-569, on the commit message.
label_merged_pr_labels(k, commit_message) ==
    LET pr_id == parse_commit_for_pr(commit_message)
    IN IF Truthy(pr_id) THEN add_then_delete(k, pr_id) ELSE << >>

label_prs_mentioned_in_commits(k) ==
    IF k.pull_request_id = None
    THEN get_pr_id_from_commit_id(k, "label_prs_resolved")
    ELSE list_commits([ pull_request_id |-> k.pull_request_id ] @@ Creds(k),
                      "label_prs_commits")

\* A faulty variant of label_prs_resolved: the commits are listed whatever the id is.
label_prs_resolved_unchecked(k, pull_request_id) ==
    list_commits([ pull_request_id |-> pull_request_id ] @@ Creds(k),
                 "label_prs_commits")

\* Lines 595-606, on the id get_pr_id_from_commit_id returns.
label_prs_resolved(k, pull_request_id) ==
    IF pull_request_id = None
    THEN << >>
    ELSE list_commits([ pull_request_id |-> pull_request_id ] @@ Creds(k),
                      "label_prs_commits")

\* A faulty variant of label_prs_commits: an id that an earlier commit already
\* gave is skipped.
label_prs_commits_unique(k, commits) ==
    LET dirty_pr_ids == [ i \in 1..Len(commits) |-> parse_commit_for_pr(commits[i]) ]
        first(i) == Truthy(dirty_pr_ids[i])
                    /\ \A j \in 1..(i - 1) : dirty_pr_ids[j] # dirty_pr_ids[i]
        RECURSIVE keep(_)
        keep(i) == IF i > Len(commits) THEN << >>
                   ELSE (IF first(i) THEN << dirty_pr_ids[i] >> ELSE << >>)
                        \o keep(i + 1)
    IN Flatten([ i \in 1..Len(keep(1)) |-> add_then_delete(k, keep(1)[i]) ])

\* Lines 607-629, on the commit messages list_commits returns.
label_prs_commits(k, commits) ==
    LET dirty_pr_ids == [ i \in 1..Len(commits) |-> parse_commit_for_pr(commits[i]) ]
        pr_ids == SelectSeq(dirty_pr_ids, Truthy)
    IN Flatten([ i \in 1..Len(pr_ids) |-> add_then_delete(k, pr_ids[i]) ])

\* The body of the function main calls.
body(fn, k) ==
    CASE fn = "add_comment" -> add_comment(k)
      [] fn = "add_labels" -> add_labels(k)
      [] fn = "close_issue" -> close_issue(k)
      [] fn = "delete_labels" -> delete_labels(k)
      [] fn = "dismiss_single_review" -> dismiss_single_review(k)
      [] fn = "dismiss_all_reviews" -> dismiss_all_reviews(k)
      [] fn = "get_commit_message" -> get_commit_message(k, "get_commit_message")
      [] fn = "get_deploy_issue_number" -> get_deploy_issue_number(k)
      [] fn = "get_prs_to_deploy" -> get_prs_to_deploy(k)
      [] fn = "label_merged_pr" -> label_merged_pr(k)
      [] fn = "label_prs_mentioned_in_commits" -> label_prs_mentioned_in_commits(k)
      [] fn = "list_commits" -> list_commits(k, "list_commits")
      [] fn = "list_deleted_files" -> list_deleted_files(k)
      [] fn = "open_pr" -> open_pr(k)
      [] fn = "get_issue_close_date" -> get_issue_close_date(k, "get_issue_close_date")
      [] fn = "get_issues" -> get_issues(k, "return_json")
      [] fn = "get_pr_id_from_commit_id" ->
            get_pr_id_from_commit_id(k, "get_pr_id_from_commit_id")
      [] fn = "get_target_branch" -> get_target_branch(k)

-----------------------------------------------------------------------------
(* What runs on a response *)

RNone == [ kind |-> "None", val |-> << >> ]
RText(t) == IF t = None THEN RNone ELSE [ kind |-> "text", val |-> t ]
RList(l) == [ kind |-> "list", val |-> l ]
RJson == [ kind |-> "json", val |-> << >> ]

NoLocals == [ pr_list |-> << >>, dates |-> << >>, stop |-> 0 ]

Outcome(c, l, r, e) == [ code |-> c, locals |-> l, result |-> r, error |-> e ]

\* A faulty variant of deleted_files: a renamed file is recorded under its new name.
RECURSIVE deleted_files_new_name(_)
deleted_files_new_name(files_modified) ==
    IF files_modified = << >> THEN << >>
    ELSE LET file == Head(files_modified)
         IN (IF file.status \in { "removed", "renamed" }
             THEN << file.filename >> ELSE << >>)
            \o deleted_files_new_name(Tail(files_modified))

\* Lines 677-700: the loop over json_response["files"].
RECURSIVE deleted_files(_)
deleted_files(files_modified) ==
    IF files_modified = << >> THEN << >>
    ELSE LET file == Head(files_modified)
         IN (IF file.status = "removed" THEN << file.filename >> ELSE << >>)
            \o (IF file.status = "renamed"
                THEN << file.previous_filename >> ELSE << >>)
            \o deleted_files(Tail(files_modified))

DeployRequest ==
    << "D", "e", "p", "l", "o", "y", " ", "R", "e", "q", "u", "e", "s", "t",
       ":", " " >>

\* "Deploy Request: %s" % pendulum.now().format("YYYY-MM-DD")
expected_issue_name(td) == DeployRequest \o td

\* Lines 467-473: the number of the first issue whose title matches.
RECURSIVE first_deploy_issue(_, _)
first_deploy_issue(issues, td) ==
    IF issues = << >> THEN None
    ELSE IF startswith(Head(issues).title, expected_issue_name(td))
         THEN Head(issues).number
         ELSE first_deploy_issue(Tail(issues), td)

\* Lines 495-505, the loop over the issues from issue i on, up to the next
\* requests.get(comments_url): the mentions collected, and in stop the
\* index of the issue whose comments are fetched next (0: the loop ended).
RECURSIVE scan_issues(_, _, _, _)
scan_issues(issues, i, pr_list, td) ==
    IF i > Len(issues) THEN [ pr_list |-> pr_list, stop |-> 0 ]
    ELSE IF startswith(issues[i].title, expected_issue_name(td))
         THEN LET prs == pr_list \o parse_message_for_prs(issues[i].body)
              IN IF Truthy(issues[i].comments_url)
                 THEN [ pr_list |-> prs, stop |-> i ]
                 ELSE scan_issues(issues, i + 1, prs, td)
         ELSE scan_issues(issues, i + 1, pr_list, td)

\* Lines 511-513: the mentions of every comment, in the order returned.
comment_mentions(comments) ==
    Flatten([ i \in 1..Len(comments) |-> parse_message_for_prs(comments[i]) ])

\* ord() of the characters a timestamp is made of.
Ascii == << "-", "0", "1", "2", "3", "4", "5", "6", "7", "8", "9", ":", "T", "Z" >>
ord(c) == CHOOSE i \in 1..Len(Ascii) : Ascii[i] = c

\* a < b of two str
RECURSIVE str_less(_, _)
str_less(a, b) ==
    IF b = << >> THEN FALSE
    ELSE IF a = << >> THEN TRUE
    ELSE IF Head(a) = Head(b) THEN str_less(Tail(a), Tail(b))
    ELSE ord(Head(a)) < ord(Head(b))

\* A faulty variant of insert_by_key: x goes before the elements of equal key.
RECURSIVE insert_before_equal(_, _)
insert_before_equal(sorted, x) ==
    IF sorted = << >> THEN << x >>
    ELSE IF ~str_less(Head(sorted)[2], x[2]) THEN << x >> \o sorted
    ELSE << Head(sorted) >> \o insert_before_equal(Tail(sorted), x)

\* x inserted into a sorted list behind every element whose key is not
\* greater than its own.
RECURSIVE insert_by_key(_, _)
insert_by_key(sorted, x) ==
    IF sorted = << >> THEN << x >>
    ELSE IF str_less(x[2], Head(sorted)[2]) THEN << x >> \o sorted
    ELSE << Head(sorted) >> \o insert_by_key(Tail(sorted), x)

\* sorted(pr_tup_list_with_dates, key=lambda x: x[1]): a stable sort.
RECURSIVE sorted_by_date(_)
sorted_by_date(pairs) ==
    IF pairs = << >> THEN << >>
    ELSE insert_by_key(sorted_by_date(SubSeq(pairs, 1, Len(pairs) - 1)),
                       pairs[Len(pairs)])

\* Lines 514-522: one get_issue_close_date per collected mention.
deploy_dates(k, pr_list) ==
    Flatten([ i \in 1..Len(pr_list) |->
        get_issue_close_date([ issue |-> pr_list[i] ] @@ Creds(k),
                             "get_prs_to_deploy_date") ])

\* Where the loop over the issues goes on after scan_issues returned s.
deploy_after_scan(k, issues, s) ==
    IF s.stop > 0
    THEN Outcome(<< Request("get_prs_to_deploy", k, "GET", "comments_url",
                            issues[s.stop].comments_url, << >>, << >>,
                            "get_prs_to_deploy_comments") >>,
                 [ pr_list |-> s.pr_list, dates |-> << >>, stop |-> s.stop ],
                 RNone, NoError)
    ELSE Outcome(deploy_dates(k, s.pr_list),
                 [ pr_list |-> s.pr_list, dates |-> << >>, stop |-> 0 ],
                 IF s.pr_list = << >> THEN RList(<< >>) ELSE RNone, NoError)

\* Lines 523-526: sorted() compares the dates, and raises TypeError when one
\* of two or more is None.
deploy_sorted(l, dates) ==
    LET pairs == [ i \in 1..Len(dates) |-> << l.pr_list[i], dates[i] >> ]
        sorted == sorted_by_date(pairs)
    IN IF Len(dates) >= 2 /\ \E i \in 1..Len(dates) : dates[i] = None
       THEN Outcome(<< >>, [ l EXCEPT !.dates = dates ], RNone,
                    Raise("TypeError", "sorted", ""))
       ELSE Outcome(<< >>, [ l EXCEPT !.dates = dates ],
                    RList([ i \in 1..Len(sorted) |-> strip_hash(sorted[i][1]) ]),
                    NoError)

\* The code that follows the request req once its response is there.
on_response(req) ==
    CASE req.then = "return" -> Outcome(<< >>, locals, RNone, NoError)
      [] req.then = "return_json" -> Outcome(<< >>, locals, RJson, NoError)
      [] req.then = "get_commit_message" ->
            Outcome(<< >>, locals, RText(remote.commit_message), NoError)
      [] req.then = "get_pr_id_from_commit_id" ->
            Outcome(<< >>, locals,
                    RText(parse_commit_for_pr(remote.commit_message)), NoError)
      [] req.then = "get_target_branch" ->
            Outcome(<< >>, locals, RText(remote.base_ref), NoError)
      [] req.then = "get_issue_close_date" ->
            Outcome(<< >>, locals, RText(remote.closed_at[req.id]), NoError)
      [] req.then = "list_commits" ->
            Outcome(<< >>, locals, RList(remote.commits), NoError)
      [] req.then = "list_deleted_files" ->
            Outcome(<< >>, locals, RList(deleted_files(remote.files)), NoError)
      [] req.then = "get_deploy_issue_number" ->
            Outcome(<< >>, locals,
                    RText(first_deploy_issue(remote.issues, today)), NoError)
      [] req.then = "dismiss_all_reviews" ->
            Outcome(dismiss_all_reviews_loop(kw, remote.reviews), locals,
                    RNone, NoError)
      [] req.then = "label_merged_pr" ->
            Outcome(label_merged_pr_labels(kw, remote.commit_message), locals,
                    RNone, NoError)
      [] req.then = "label_prs_resolved" ->
            Outcome(label_prs_resolved(kw,
                        parse_commit_for_pr(remote.commit_message)),
                    locals, RNone, NoError)
      [] req.then = "label_prs_commits" ->
            Outcome(label_prs_commits(kw, remote.commits), locals, RNone, NoError)
      [] req.then = "get_prs_to_deploy_issues" ->
            deploy_after_scan(kw, remote.issues,
                              scan_issues(remote.issues, 1, << >>, today))
      [] req.then = "get_prs_to_deploy_comments" ->
            deploy_after_scan(kw, remote.issues,
                scan_issues(remote.issues, locals.stop + 1,
                    locals.pr_list
                      \o comment_mentions(remote.issues[locals.stop].comments),
                    today))
      [] req.then = "get_prs_to_deploy_date" ->
            IF Len(locals.dates) + 1 < Len(locals.pr_list)
            THEN Outcome(<< >>,
                     [ locals EXCEPT
                         !.dates = Append(@, remote.closed_at[req.id]) ],
                     RNone, NoError)
            ELSE deploy_sorted(locals,
                               Append(locals.dates, remote.closed_at[req.id]))

\* Whether the remote knows what the request is addressed to (404 otherwise).
found(req) ==
    req.endpoint = "issues/{}" /\ req.verb = "GET"
        => req.id \in DOMAIN remote.closed_at

-----------------------------------------------------------------------------
(* The dispatcher and the steps of the invoked function *)

\* Lines 773-783 up to the call: the exception main ends with before the
\* function's body runs, or NoError.
dispatch_error(a) ==
    IF validate_args(a) # NoError THEN validate_args(a)
    ELSE IF a.extras.kind # "object"
         THEN Raise("TypeError", "main:mapping", "")
    ELSE IF a.command \notin module_globals
         THEN Raise("KeyError", "main:globals", "")
    ELSE IF a.command \notin kwargs_functions
         THEN Raise("TypeError", "main:call", "")
    ELSE IF ~(required_parameters[a.command] \subseteq DOMAIN merge_parameters(a))
         THEN Raise("TypeError", "main:call", "")
    ELSE NoError

main ==
    /\ pc = "main"
    /\ error' = dispatch_error(args)
    /\ IF dispatch_error(args) = NoError
       THEN /\ invoked' = args.command
            /\ kw' = merge_parameters(args) @@ defaults(args.command)
            /\ code' = body(args.command,
                            merge_parameters(args) @@ defaults(args.command))
            /\ pc' = "run"
       ELSE /\ invoked' = "None"
            /\ kw' = << >>
            /\ code' = << >>
            /\ pc' = "done"
    /\ UNCHANGED << args, remote, today, labels_on, locals, calls, requests, result >>

\* A function is entered and builds its headers.
enter ==
    /\ pc = "run"
    /\ code # << >>
    /\ Head(code).op = "call"
    /\ calls' = Append(calls, [ fn |-> Head(code).fn, id |-> Head(code).id,
                                labels |-> Head(code).labels ])
    /\ IF Head(code).hdr.mode = "raise"
       THEN /\ error' = Raise("Exception", "build_headers", "")
            /\ code' = << >>
            /\ pc' = "done"
       ELSE /\ error' = error
            /\ code' = Tail(code)
            /\ pc' = IF Tail(code) = << >> THEN "done" ELSE "run"
    /\ UNCHANGED << args, remote, today, labels_on, invoked, kw, locals, requests, result >>

Sent(req) ==
    [ fn |-> req.fn, verb |-> req.verb, endpoint |-> req.endpoint,
      id |-> req.id, sub |-> req.sub, labels |-> req.labels, hdr |-> req.hdr ]

\* What a successful request changes on the remote side.
remote_effect(req, on) ==
    CASE req.verb = "POST" /\ req.endpoint = "issues/{}/labels" ->
            on \cup { << req.id, req.labels[i] >> : i \in 1..Len(req.labels) }
      [] req.verb = "DELETE" /\ req.endpoint = "issues/{}/labels/{}" ->
            on \ { << req.id, req.sub >> }
      [] OTHER -> on

\* A request is answered with a 2xx status, and the code behind it runs.
response_ok ==
    /\ pc = "run"
    /\ code # << >>
    /\ Head(code).op = "request"
    /\ found(Head(code))
    /\ requests' = Append(requests, Sent(Head(code)))
    /\ labels_on' = remote_effect(Head(code), labels_on)
    /\ LET o == on_response(Head(code))
       IN /\ locals' = o.locals
          /\ result' = o.result
          /\ error' = o.error
          /\ code' = IF o.error = NoError THEN o.code \o Tail(code) ELSE << >>
          /\ pc' = IF o.error = NoError /\ o.code \o Tail(code) # << >>
                   THEN "run" ELSE "done"
    /\ UNCHANGED << args, remote, today, invoked, kw, calls >>

\* A request is answered with another status: raise_for_status raises.
raise_for_status ==
    /\ pc = "run"
    /\ code # << >>
    /\ Head(code).op = "request"
    /\ requests' = Append(requests, Sent(Head(code)))
    /\ error' = Raise("HTTPError", Head(code).fn, "")
    /\ code' = << >>
    /\ pc' = "done"
    /\ UNCHANGED << args, remote, today, labels_on, invoked, kw, locals, calls, result >>

Next == main \/ enter \/ response_ok \/ raise_for_status

-----------------------------------------------------------------------------
(* Inputs *)

Date1 == << "2", "0", "2", "4", "-", "0", "1", "-", "0", "3" >>
Date2 == << "2", "0", "2", "4", "-", "0", "1", "-", "0", "4" >>

Issue(number, title, text, comments_url, comments) ==
    [ number |-> number, title |-> title, body |-> text,
      comments_url |-> comments_url, comments |-> comments ]

File(filename, status, previous_filename) ==
    [ filename |-> filename, status |-> status,
      previous_filename |-> previous_filename ]

WithRef7 == << "f", " ", "(", "#", "7", ")" >>
WithRef8 == << "(", "#", "8", ")", " ", "(", "#", "9", ")" >>
NoRef == << "w", "i", "p" >>

DeployIssue == Issue(T("3"), DeployRequest \o Date1,
                     << "#", "1", "0", ",", " ", "#", "2", "0" >>,
                     << "u", "3" >>, << << "#", "1", "5" >> >>)
StaleIssue == Issue(T("2"), DeployRequest \o Date2, << "#", "1", "5" >>,
                    << "u", "2" >>, << << "#", "1", "0" >> >>)
SecondDeployIssue == Issue(T("6"), DeployRequest \o Date1 \o << " ", "b" >>,
                           << "#", "1", "5" >>, << "u", "6" >>,
                           << << "#", "1", "0" >> >>)
OtherIssue == Issue(T("4"), << "B", "u", "g", " ", "#", "9" >>, << "#", "2", "0" >>,
                    << "u", "4" >>, << >>)

ClosedAt ==
    ( << "1", "0" >> :> << "0", "3" >> ) @@ ( << "2", "0" >> :> << "0", "1" >> )
    @@ ( << "1", "5" >> :> << "0", "2" >> )

BaseRemote ==
    [ commit_message |-> WithRef7,
      files |-> << File(T("a"), "removed", None), File(T("b"), "renamed", T("c")),
                   File(T("d"), "modified", None) >>,
      commits |-> << WithRef7, NoRef, WithRef8 >>,
      issues |-> << OtherIssue, DeployIssue >>,
      closed_at |-> ClosedAt,
      reviews |-> << T("1"), None, T("2") >>,
      base_ref |-> T("d") ]

\* What the remote may hold, for the functions that read it.
Remotes(command) ==
    CASE command \in { "label_merged_pr", "get_commit_message",
                       "get_pr_id_from_commit_id" } ->
            { [ BaseRemote EXCEPT !.commit_message = m ] : m \in { WithRef7, NoRef } }
      [] command = "label_prs_mentioned_in_commits" ->
            { [ BaseRemote EXCEPT !.commit_message = m, !.commits = c ] :
                m \in { WithRef7, NoRef },
                c \in { << >>, << WithRef7, NoRef, WithRef8 >> } }
      [] command \in { "get_deploy_issue_number", "get_prs_to_deploy" } ->
            { [ BaseRemote EXCEPT !.issues = i ] :
                i \in { << >>, << OtherIssue, StaleIssue >>,
                        << OtherIssue, DeployIssue >>,
                        << DeployIssue, OtherIssue >>,
                        << DeployIssue, OtherIssue, SecondDeployIssue >> } }
      [] command = "dismiss_all_reviews" ->
            { [ BaseRemote EXCEPT !.reviews = r ] :
                r \in { << >>, << T("1"), None, T("2") >> } }
      [] OTHER -> { BaseRemote }

Tokens == { None, T("t") }
Usernames == { None, T("u") }
Passwords == { None, T("p") }
PullRequestIds == { None, T("5") }

\* Command names: the registry's keys, the functions the registry does not
\* name, other names of the module, and names the module does not hold.
Commands ==
    available_commands \cup kwargs_functions
    \cup { "build_headers", "available_commands", "json", "no_such_command", "None" }

\* The fields the commands read from extras.
CommandFields ==
    [ message |-> T("x"), labels |-> << T("l") >>, issue |-> << "#", "1", "0" >>,
      review_id |-> T("9"), commit_id |-> T("c"),
      labels_to_add |-> << T("a") >>, labels_to_delete |-> << T("d"), T("e") >>,
      head |-> T("h"), base |-> T("b"), title |-> T("t") ]

Object(raw, obj) == [ kind |-> "object", raw |-> raw, obj |-> obj ]

Extras ==
    { NoExtras,
      [ kind |-> "invalid", raw |-> "{bad", obj |-> << >> ],
      [ kind |-> "nonobject", raw |-> "[1]", obj |-> << >> ],
      Object("{}", << >>),
      Object("{fields}", CommandFields),
      Object("{fields, username, password}",
             [ username |-> T("v"), password |-> T("q") ] @@ CommandFields),
      Object("{fields, pull_request_id}",
             [ pull_request_id |-> T("6") ] @@ CommandFields) }

Args(C, Tk, U, P, L, E) ==
    [ command : C, token : Tk, username : U, password : P,
      pull_request_id : L, extras : E ]

\* The state main starts in, the flags drawn from A and the remote from R.
InitWith(A, R, D, On) ==
    /\ args \in A
    /\ remote \in R[args.command]
    /\ today \in D
    /\ labels_on \in On
    /\ pc = "main"
    /\ invoked = "None"
    /\ kw = << >>
    /\ code = << >>
    /\ locals = NoLocals
    /\ calls = << >>
    /\ requests = << >>
    /\ result = RNone
    /\ error = NoError

Init ==
    InitWith(Args(Commands, Tokens, Usernames, Passwords, PullRequestIds, Extras),
             [ c \in Commands |-> Remotes(c) ], { Date1 }, { { } })

Spec == Init /\ [][Next]_vars

-----------------------------------------------------------------------------
(* Commit messages: label_merged_pr and get_pr_id_from_commit_id on every  *)
(* message made of up to MaxFrags fragments.                               *)

MaxFrags == 3

Frags ==
    { << "(", "#", "1", ")" >>, << "(", "#", "2", ")" >>, << "(", "#" >>,
      << ")" >>, << "\n" >>, << "x" >> }

Messages == { Flatten(fs) : fs \in SeqsUpTo(Frags, MaxFrags) }

CommitRemotes(command) == { [ BaseRemote EXCEPT !.commit_message = m ] : m \in Messages }

CommitExtras ==
    { Object("{fields}", CommandFields),
      Object("{fields, labels_to_delete: []}",
             [ labels_to_delete |-> << >> ] @@ CommandFields) }

InitCommit ==
    InitWith(Args({ "label_merged_pr", "get_pr_id_from_commit_id" }, Tokens,
                  { None }, { None }, { None }, CommitExtras),
             [ c \in { "label_merged_pr", "get_pr_id_from_commit_id" } |-> CommitRemotes(c) ],
             { Date1 }, { { } })

SpecCommit == InitCommit /\ [][Next]_vars

\* A match of "(#", one or more characters other than a newline, ")" that
\* starts at i and ends at j.
is_pr_pattern(m, i, j) ==
    /\ 1 <= i /\ i + 3 <= j /\ j <= Len(m)
    /\ m[i] = "(" /\ m[i + 1] = "#" /\ m[j] = ")"
    /\ \A t \in (i + 2)..(j - 1) : m[t] # "\n"

has_pr_pattern(m) == \E i, j \in 1..Len(m) : is_pr_pattern(m, i, j)

\* "(#" id ")" is a part of m.
occurs_as_ref(id, m) ==
    \E i \in 1..Len(m) :
        /\ i + Len(id) + 2 <= Len(m)
        /\ SubSeq(m, i, i + Len(id) + 2) = << "(", "#" >> \o id \o << ")" >>

\* The first request was answered, and the code behind it ran.
first_response_seen ==
    requests # << >> /\ ~(Len(requests) = 1 /\ error.type = "HTTPError")

\* C1: label_merged_pr, on a commit message with a "(#id)" pattern, calls
\* add_labels for that id with labels_to_add and only then delete_labels for
\* the same id with labels_to_delete, and a run that ends without an error
\* has made both calls and every request of them; on a message without the
\* pattern it makes no call after the commit fetch and returns without an
\* error.
C1_add_then_delete ==
    invoked = "label_merged_pr" =>
        LET m == remote.commit_message
        IN /\ Len(calls) >= 1 => calls[1].fn = "get_commit_message"
           /\ Len(requests) >= 1 =>
                requests[1].verb = "GET" /\ requests[1].endpoint = "commits/{}"
           /\ ~has_pr_pattern(m) =>
                /\ Len(calls) <= 1 /\ Len(requests) <= 1
                /\ first_response_seen => pc = "done" /\ error = NoError
           /\ has_pr_pattern(m) =>
                /\ Len(calls) <= 3
                /\ Len(requests) <= 2 + Len(kw.labels_to_delete)
                /\ Len(calls) >= 2 =>
                     /\ calls[2].fn = "add_labels"
                     /\ calls[2].labels = kw.labels_to_add
                     /\ occurs_as_ref(calls[2].id, m)
                /\ Len(calls) = 3 =>
                     /\ calls[3] = [ fn |-> "delete_labels", id |-> calls[2].id,
                                     labels |-> kw.labels_to_delete ]
                     /\ Len(requests) >= 2
                /\ \A i \in 2..Len(requests) :
                     /\ requests[i].id = calls[2].id
                     /\ IF i = 2
                        THEN /\ requests[i].verb = "POST"
                             /\ requests[i].endpoint = "issues/{}/labels"
                             /\ requests[i].labels = kw.labels_to_add
                        ELSE /\ requests[i].verb = "DELETE"
                             /\ requests[i].endpoint = "issues/{}/labels/{}"
                             /\ requests[i].sub = kw.labels_to_delete[i - 2]
                             /\ Len(calls) = 3
                /\ pc = "done" /\ error = NoError =>
                     /\ Len(calls) = 3
                     /\ Len(requests) = 2 + Len(kw.labels_to_delete)

\* label_merged_pr ended without an error after adding and deleting labels
\* on the pull request a message with two patterns names first.
C1_witness ==
    /\ invoked = "label_merged_pr" /\ pc = "done" /\ error = NoError
    /\ remote.commit_message = << "(", "#", "2", ")", "(", "#", "1", ")" >>
    /\ Len(requests) = 4
    /\ requests[2].verb = "POST" /\ requests[4].verb = "DELETE"
    /\ requests[4].id = << "2" >>


\* m holds ref, and nothing before it starts with "(#".
first_ref_is(m, id) ==
    \E i \in 1..Len(m) :
        /\ i + Len(id) + 2 <= Len(m)
        /\ SubSeq(m, i, i + Len(id) + 2) = << "(", "#" >> \o id \o << ")" >>
        /\ \A t \in 1..(i - 1) : ~(m[t] = "(" /\ m[t + 1] = "#")

\* The group of the leftmost match, the shortest one that starts there.
leftmost_group(m) ==
    LET i0 == CHOOSE i \in 1..Len(m) :
                /\ \E j \in 1..Len(m) : is_pr_pattern(m, i, j)
                /\ \A t \in 1..(i - 1) : \A j \in 1..Len(m) : ~is_pr_pattern(m, t, j)
        j0 == CHOOSE j \in 1..Len(m) :
                /\ is_pr_pattern(m, i0, j)
                /\ \A t \in 1..(j - 1) : ~is_pr_pattern(m, i0, t)
    IN SubSeq(m, i0 + 2, j0 - 1)

pr_id_returned ==
    invoked = "get_pr_id_from_commit_id" /\ pc = "done" /\ error = NoError

\* C10, as the claim states it: for every commit message that contains
\* "(#id)" the result of parse_commit_for_pr is id, and for every message
\* without a parenthesized "#" reference it is absent.
C10_any_ref_is_returned ==
    pr_id_returned =>
        LET m == remote.commit_message
        IN /\ \A id \in { << "1" >>, << "2" >> } :
                occurs_as_ref(id, m) => result = RText(id)
           /\ ~has_pr_pattern(m) => result = RNone

\* C10, amended: the result is the group of the leftmost match of "(#", one
\* or more characters other than a newline taken lazily, ")"; so it is id
\* for every message whose first "(#" opens "(#id)", whatever follows, and
\* absent for every message without a match.
C10_leftmost_ref_is_returned ==
    pr_id_returned =>
        LET m == remote.commit_message
        IN /\ has_pr_pattern(m) => result = RText(leftmost_group(m))
           /\ \A id \in { << "1" >>, << "2" >> } :
                first_ref_is(m, id) => result = RText(id)
           /\ ~has_pr_pattern(m) => result = RNone

\* The id of the first of two patterns was returned.
C10_witness ==
    /\ pr_id_returned
    /\ remote.commit_message = << "x", "(", "#", "1", ")", "(", "#", "2", ")" >>
    /\ result = RText(<< "1" >>)


-----------------------------------------------------------------------------
(* The dispatcher, under Spec *)

\* validate_args passed and extras was merged: main reached the lookup.
lookup_reached ==
    /\ ~(Truthy(args.token) /\ Truthy(args.username))
    /\ args.extras.kind = "object"

\* C3: a command name that is no key of available_commands is rejected: no
\* function is invoked, no request is issued, and once main reached the
\* lookup the invocation ends with the error of the lookup or of the call.
C3_unregistered_command_rejected ==
    args.command \notin available_commands =>
        /\ invoked = "None"
        /\ requests = << >>
        /\ pc = "done" /\ lookup_reached =>
             error.at \in { "main:globals", "main:call" }

\* C4: every key of available_commands has a handler: with credentials and
\* the command's fields in extras, main invokes the function of that name.
C4_registered_command_has_handler ==
    ( /\ args.command \in available_commands
      /\ pc # "main"
      /\ args.token = T("t") /\ args.username = None
      /\ args.pull_request_id = T("5")
      /\ args.extras = Object("{fields}", CommandFields) )
    => invoked = args.command /\ error.type # "KeyError"

\* C5: when the parameters hold both a token and a username, the invocation
\* is rejected before any request: no function builds headers from both and
\* no request is issued.
C5_two_auth_modes_rejected ==
    LET both == IF args.extras.kind = "object"
                THEN Truthy(merge_parameters(args).token)
                     /\ Truthy(merge_parameters(args).username)
                ELSE Truthy(args.token) /\ Truthy(args.username)
    IN both => /\ requests = << >>
               /\ invoked = "None"
               /\ pc = "done" => error.type # "None"

\* Neither a token nor a complete username and password pair.
no_credentials(k) ==
    ~Truthy(k.token) /\ ~(Truthy(k.username) /\ Truthy(k.password))

\* C6: a function invoked with neither a token nor a complete username and
\* password pair issues no request and ends with the exception of
\* build_headers; and no request at all, of the invoked function or of one
\* it calls, is issued without headers built from credentials.
C6_no_credentials_no_request ==
    /\ \A i \in 1..Len(requests) : requests[i].hdr.mode \in { "token", "basic" }
    /\ ( invoked # "None" /\ no_credentials(kw) ) =>
          /\ requests = << >>
          /\ pc = "done" =>
               error = Raise("Exception", "build_headers", "")

\* A composite operation, invoked without credentials, ended with the
\* exception of build_headers and without a request.
C6_witness ==
    /\ invoked = "label_prs_mentioned_in_commits"
    /\ no_credentials(kw) /\ Truthy(kw.username)
    /\ pc = "done" /\ error.type = "Exception" /\ requests = << >>

\* C7: an extras payload that is invalid JSON, absent, or no JSON object is
\* rejected by the validation with the formatting error that holds the raw
\* input, before a function is invoked or a request issued.
C7_malformed_extras_rejected ==
    ( /\ args.extras.kind # "object"
      /\ ~(Truthy(args.token) /\ Truthy(args.username)) )
    => /\ invoked = "None" /\ requests = << >>
       /\ pc = "done" =>
            error = Raise("ValueError", "validate_args:extras", args.extras.raw)

\* No title of the issues starts with "Deploy Request: " and today's date.
no_deploy_issue ==
    \A i \in 1..Len(remote.issues) :
        LET t == remote.issues[i].title
            p == DeployRequest \o today
        IN Len(t) < Len(p) \/ \E c \in 1..Len(p) : t[c] # p[c]

\* C8: a soft miss is no error and ends the operation. (a)
\* label_prs_mentioned_in_commits without a pull_request_id, on a commit
\* message without a PR id, issues only the commit fetch and returns; (b)
\* without an open issue of today's title, get_deploy_issue_number returns
\* None and get_prs_to_deploy the empty list, and only the issues are
\* fetched.
C8_soft_miss ==
    /\ ( /\ invoked = "label_prs_mentioned_in_commits"
         /\ kw.pull_request_id = None
         /\ ~has_pr_pattern(remote.commit_message) )
       => /\ \A i \in 1..Len(requests) : requests[i].endpoint = "commits/{}"
          /\ Len(requests) <= 1
          /\ first_response_seen =>
               pc = "done" /\ error = NoError /\ result = RNone
    /\ ( invoked \in { "get_deploy_issue_number", "get_prs_to_deploy" }
         /\ no_deploy_issue )
       => /\ \A i \in 1..Len(requests) : requests[i].endpoint = "issues"
          /\ Len(requests) <= 1
          /\ first_response_seen =>
               /\ pc = "done" /\ error = NoError
               /\ result = IF invoked = "get_prs_to_deploy"
                           THEN RList(<< >>) ELSE RNone

\* get_prs_to_deploy returned the empty list for issues none of which is
\* today's.
C8_witness ==
    /\ invoked = "get_prs_to_deploy" /\ pc = "done" /\ error = NoError
    /\ remote.issues # << >> /\ no_deploy_issue
    /\ result = RList(<< >>) /\ Len(requests) = 1


-----------------------------------------------------------------------------
(* get_prs_to_deploy on every issue body of up to MaxBody mentions and up  *)
(* to MaxComments comments, under every assignment of closing dates.       *)

MaxBody == 2
MaxComments == 1

Mention10 == << "#", "1", "0" >>
Mention20 == << "#", "2", "0" >>
Mention15 == << "#", "1", "5" >>

BodyFrags == { Mention10 \o << ",", " " >>, Mention20 \o << ",", " " >>,
               Mention15 \o << ",", " " >> }

Bodies == { Flatten(fs) : fs \in SeqsUpTo(BodyFrags, MaxBody) } \cup { None }

CommentTexts == { Mention15, << "o", "k", " " >> \o Mention10,
                  Mention20 \o Mention20 }

CloseDates == { << "0", "1" >>, << "0", "2" >>, << "0", "3" >> }

ClosedAts ==
    { ( << "1", "0" >> :> a ) @@ ( << "2", "0" >> :> b ) @@ ( << "1", "5" >> :> c ) :
        a \in CloseDates, b \in CloseDates, c \in { << "0", "2" >>, None } }

DeployRemotes(command) ==
    { [ BaseRemote EXCEPT
          !.issues = << OtherIssue,
                        Issue(T("3"), DeployRequest \o Date1 \o << " ", "p", "m" >>,
                              b, << "u", "3" >>, cs) >>,
          !.closed_at = ca ] :
        b \in Bodies, cs \in SeqsUpTo(CommentTexts, MaxComments), ca \in ClosedAts }

InitDeploy ==
    InitWith(Args({ "get_prs_to_deploy" }, { T("t") }, { None }, { None },
                  { None }, { Object("{}", << >>) }),
             [ c \in { "get_prs_to_deploy" } |-> DeployRemotes(c) ], { Date1 }, { { } })

SpecDeploy == InitDeploy /\ [][Next]_vars

\* The day a closing date names.
DateValue(d) ==
    LET digit(c) == CHOOSE n \in 0..9 : << "0", "1", "2", "3", "4", "5", "6",
                                            "7", "8", "9" >>[n + 1] = c
    IN 10 * digit(d[1]) + digit(d[2])

\* The closing date of a mention "#id".
closed_at_of(mention) == remote.closed_at[Tail(mention)]

\* The place of the i-th of the collected mentions in their stable
\* ascending order: behind the mentions closed earlier, and behind the
\* earlier mentions closed on the same day.
place(collected, i) ==
    1 + Cardinality({ j \in 1..Len(collected) :
          \/ DateValue(closed_at_of(collected[j])) < DateValue(closed_at_of(collected[i]))
          \/ /\ DateValue(closed_at_of(collected[j])) = DateValue(closed_at_of(collected[i]))
             /\ j < i })

\* C2: get_prs_to_deploy returns the collected mentions in the stable
\* ascending order of their closing dates, duplicates kept, each without
\* its leading "#", whenever no closing date is null.
C2_stable_sort_by_closed_at ==
    ( /\ invoked = "get_prs_to_deploy" /\ pc = "done" /\ error = NoError
      /\ \A i \in 1..Len(locals.pr_list) : closed_at_of(locals.pr_list[i]) # None )
    => /\ result.kind = "list"
       /\ Len(result.val) = Len(locals.pr_list)
       /\ \A i \in 1..Len(locals.pr_list) :
            result.val[place(locals.pr_list, i)] = Tail(locals.pr_list[i])

\* The example of the specification: body "#10, #20", one comment "#15",
\* closed on the 3rd, the 1st and the 2nd.
C2_witness ==
    /\ invoked = "get_prs_to_deploy" /\ pc = "done" /\ error = NoError
    /\ locals.pr_list = << Mention10, Mention20, Mention15 >>
    /\ remote.closed_at[<< "1", "0" >>] = << "0", "3" >>
    /\ remote.closed_at[<< "2", "0" >>] = << "0", "1" >>
    /\ remote.closed_at[<< "1", "5" >>] = << "0", "2" >>
    /\ result = RList(<< << "2", "0" >>, << "1", "5" >>, << "1", "0" >> >>)

-----------------------------------------------------------------------------
(* list_deleted_files on every file-change list of up to MaxFiles entries. *)

MaxFiles == 3

FileEntries ==
    { File(T("a"), "removed", None), File(T("c"), "removed", None),
      File(T("b"), "renamed", T("c")), File(T("a"), "renamed", T("b")),
      File(T("d"), "added", None), File(T("d"), "modified", None) }

FilesRemotes(command) ==
    { [ BaseRemote EXCEPT !.files = fs ] : fs \in SeqsUpTo(FileEntries, MaxFiles) }

InitFiles ==
    InitWith(Args({ "list_deleted_files" }, Tokens, { None }, { None },
                  { None }, { Object("{fields}", CommandFields) }),
             [ c \in { "list_deleted_files" } |-> FilesRemotes(c) ], { Date1 }, { { } })

SpecFiles == InitFiles /\ [][Next]_vars

\* The entries of the list that are removed or renamed.
deleted_entries(files) ==
    { i \in 1..Len(files) : files[i].status \in { "removed", "renamed" } }

\* C9: list_deleted_files returns, in the order of the file-change list,
\* the filename of every removed entry and the previous filename of every
\* renamed entry, each once, and nothing for an added or modified entry.
C9_deleted_files_in_order ==
    ( invoked = "list_deleted_files" /\ pc = "done" /\ error = NoError )
    => LET files == remote.files
       IN /\ result.kind = "list"
          /\ Len(result.val) = Cardinality(deleted_entries(files))
          /\ \A i \in deleted_entries(files) :
               result.val[Cardinality({ j \in deleted_entries(files) : j <= i })]
                 = IF files[i].status = "removed"
                   THEN files[i].filename
                   ELSE files[i].previous_filename

\* The example of the specification: removed, renamed, modified.
C9_witness ==
    /\ invoked = "list_deleted_files" /\ pc = "done" /\ error = NoError
    /\ remote.files = << File(T("a"), "removed", None),
                         File(T("b"), "renamed", T("c")),
                         File(T("d"), "modified", None) >>
    /\ result = RList(<< T("a"), T("c") >>)

-----------------------------------------------------------------------------
(* dismiss_all_reviews *)

\* The reviews of the fetched list that have an id, in list order.
reviews_with_id == SelectSeq(remote.reviews, LAMBDA r : r # None)

\* The invoked function ran to its end and every response it got was 2xx.
ended_without_http_error == pc = "done" /\ error.type # "HTTPError"

\* C11: dismiss_all_reviews, given valid credentials and answered with
\* success every time, ends without an error, having issued the fetch of
\* the review list and then one PUT .../pulls/{pr}/reviews/{review}/dismissals
\* for every review of the list that has an id, in list order, addressed to
\* the requested pull request and carrying the caller's credentials.
C11_dismisses_every_review ==
    ( /\ invoked = "dismiss_all_reviews"
      /\ ~no_credentials(kw)
      /\ ended_without_http_error )
    => /\ error = NoError
       /\ Len(requests) = 1 + Len(reviews_with_id)
       /\ \A i \in 1..Len(reviews_with_id) :
            /\ requests[i + 1].verb = "PUT"
            /\ requests[i + 1].endpoint = "pulls/{}/reviews/{}/dismissals"
            /\ requests[i + 1].id = kw.pull_request_id
            /\ requests[i + 1].sub = reviews_with_id[i]
            /\ requests[i + 1].hdr
                 = build_headers(kw.token, kw.username, kw.password)

-----------------------------------------------------------------------------
(* The label operations on every commit list of up to MaxCommits messages, *)
(* with labels already on the pull requests.                               *)

MaxCommits == 3

CommitLists == SeqsUpTo({ WithRef7, NoRef, WithRef8 }, MaxCommits)

\* The labels on the pull requests before the operation.
InitialLabels ==
    { << T("7"), T("d") >>, << T("7"), T("e") >>, << T("8"), T("d") >>,
      << T("8"), T("x") >> }

LabelRemotes(command) ==
    { [ BaseRemote EXCEPT !.commit_message = m, !.commits = c ] :
        m \in { WithRef7, NoRef }, c \in CommitLists }

LabelExtras ==
    { Object("{fields}", CommandFields),
      Object("{fields, labels_to_delete: [d]}",
             [ labels_to_delete |-> << T("d") >> ] @@ CommandFields),
      Object("{fields, labels_to_add: [a, d]}",
             [ labels_to_add |-> << T("a"), T("d") >> ] @@ CommandFields) }

InitLabels ==
    InitWith(Args({ "label_merged_pr", "label_prs_mentioned_in_commits" },
                  { T("t") }, { None }, { None }, PullRequestIds, LabelExtras),
             [ c \in { "label_merged_pr", "label_prs_mentioned_in_commits" }
                 |-> LabelRemotes(c) ],
             { Date1 }, { InitialLabels })

SpecLabels == InitLabels /\ [][Next]_vars

IsPrefix(s, t) == Len(s) <= Len(t) /\ SubSeq(t, 1, Len(s)) = s

\* The calls of add_labels and delete_labels so far, in order.
label_calls ==
    SelectSeq(calls, LAMBDA c : c.fn \in { "add_labels", "delete_labels" })

\* The ids of the commit messages: non-matches discarded, order and
\* duplicates kept.
resolved_ids(commits) ==
    SelectSeq([ i \in 1..Len(commits) |-> parse_commit_for_pr(commits[i]) ],
              LAMBDA id : id # None /\ id # << >>)

\* add(id1), delete(id1), add(id2), delete(id2), ...
paired_calls(ids) ==
    Flatten([ i \in 1..Len(ids) |->
        << [ fn |-> "add_labels", id |-> ids[i], labels |-> kw.labels_to_add ],
           [ fn |-> "delete_labels", id |-> ids[i],
             labels |-> kw.labels_to_delete ] >> ])

\* The requests that were answered with success.
answered ==
    IF error.type = "HTTPError"
    THEN SubSeq(requests, 1, Len(requests) - 1)
    ELSE requests

\* The labels on the pull requests once the requests reqs were applied to on.
RECURSIVE applied(_, _)
applied(reqs, on) ==
    IF reqs = << >> THEN on
    ELSE applied(Tail(reqs), remote_effect(Head(reqs), on))

commits_listed ==
    \E i \in 1..Len(answered) : answered[i].fn = "list_commits"

\* C12: label_prs_mentioned_in_commits calls add_labels and delete_labels
\* strictly as add(id1), delete(id1), add(id2), delete(id2), ... over the
\* ids of the commit messages (non-matches discarded, order and duplicates
\* kept); the first HTTP error ends the operation, so that nothing is called
\* for a later id, and what the answered requests applied stays applied.
C12_pairs_in_order_until_first_error ==
    invoked = "label_prs_mentioned_in_commits"
    => /\ IsPrefix(label_calls, paired_calls(resolved_ids(remote.commits)))
       /\ label_calls # << >> => commits_listed
       /\ ( pc = "done" /\ error = NoError /\ commits_listed )
          => label_calls = paired_calls(resolved_ids(remote.commits))
       /\ error.type = "HTTPError" => ( pc = "done" /\ code = << >> )
       /\ labels_on = applied(answered, InitialLabels)

\* Two commits name pull request 7 and one names none; the add for the
\* second occurrence fails, after the first pair was applied.
C12_witness ==
    /\ invoked = "label_prs_mentioned_in_commits"
    /\ remote.commits = << WithRef7, NoRef, WithRef7 >>
    /\ kw.labels_to_add = << T("a") >>
    /\ kw.labels_to_delete = << T("d"), T("e") >>
    /\ pc = "done" /\ error = Raise("HTTPError", "add_labels", "")
    /\ Len(label_calls) = 3
    /\ label_calls[3] = [ fn |-> "add_labels", id |-> T("7"),
                          labels |-> << T("a") >> ]
    /\ << T("7"), T("a") >> \in labels_on
    /\ << T("7"), T("d") >> \notin labels_on

\* The position of the last add-labels request, 0 when there is none.
last_add ==
    LET posts == { i \in 1..Len(requests) : requests[i].verb = "POST" }
    IN IF posts = { } THEN 0 ELSE CHOOSE i \in posts : \A j \in posts : j <= i

\* The pull request of the add/delete pair that is under way.
pair_id == label_calls[Len(label_calls)].id

\* The labels on the pull requests when the pair under way began.
before_pair == applied(SubSeq(requests, 1, last_add - 1), InitialLabels)

\* The operation ended with an HTTP error raised in fn.
aborted_in(fn) ==
    /\ invoked \in { "label_merged_pr", "label_prs_mentioned_in_commits" }
    /\ pc = "done" /\ error = Raise("HTTPError", fn, "")

members(seq) == { seq[i] : i \in 1..Len(seq) }

\* C13, as stated: when the operation aborts with an HTTP error after the
\* add-labels call succeeded, every label of labels_to_add is on the pull
\* request and no label of labels_to_delete has been removed from it; when
\* add-labels itself fails, no delete request is issued.
C13_added_and_nothing_deleted ==
    /\ aborted_in("delete_labels")
       => /\ \A l \in members(kw.labels_to_add) : << pair_id, l >> \in labels_on
          /\ \A l \in members(kw.labels_to_delete) :
               << pair_id, l >> \in before_pair => << pair_id, l >> \in labels_on
    /\ aborted_in("add_labels")
       => \A i \in last_add..Len(requests) : requests[i].verb # "DELETE"

\* C13, amended: an HTTP error after add-labels succeeded is the failure of
\* one of the per-label DELETE requests of delete_labels; the labels of
\* labels_to_delete before the failing one have been removed, the failing
\* one and those behind it have not, and every label of labels_to_add that
\* is not among the removed ones is on the pull request. When add-labels
\* itself fails, no delete request of the pair is issued and the labels of
\* the pull request are as the pair found them.
C13_deleted_up_to_failing_label ==
    /\ aborted_in("delete_labels")
       => LET n == Len(requests) - last_add - 1
              removed == { kw.labels_to_delete[i] : i \in 1..n }
              on_pr(on) == { l \in members(kw.labels_to_add)
                                    \cup members(kw.labels_to_delete) :
                               << pair_id, l >> \in on }
          IN /\ last_add > 0 /\ n >= 0 /\ n < Len(kw.labels_to_delete)
             /\ requests[Len(requests)].verb = "DELETE"
             /\ requests[Len(requests)].id = pair_id
             /\ requests[Len(requests)].sub = kw.labels_to_delete[n + 1]
             /\ on_pr(labels_on)
                  = (on_pr(before_pair) \cup members(kw.labels_to_add)) \ removed
    /\ aborted_in("add_labels")
       => /\ last_add = Len(requests)
          /\ invoked = "label_merged_pr"
             => \A i \in 1..Len(requests) : requests[i].verb # "DELETE"
          /\ labels_on = before_pair

\* label_merged_pr on pull request 7, labels d and e to delete: label a was
\* added, d was removed, and the deletion of e failed.
C13_witness ==
    /\ invoked = "label_merged_pr"
    /\ aborted_in("delete_labels")
    /\ kw.labels_to_add = << T("a") >>
    /\ kw.labels_to_delete = << T("d"), T("e") >>
    /\ Len(requests) = 4
    /\ requests[4].sub = T("e")
    /\ << T("7"), T("a") >> \in labels_on
    /\ << T("7"), T("d") >> \notin labels_on
    /\ << T("7"), T("e") >> \in labels_on

-----------------------------------------------------------------------------
(* The issue get_prs_to_deploy reads *)

\* The positions of the issues whose title starts with today's prefix.
matching_issues ==
    { i \in 1..Len(remote.issues) :
        startswith(remote.issues[i].title, DeployRequest \o today) }

\* The first of them: the issue get_deploy_issue_number returns the number of.
selected_issue ==
    remote.issues[CHOOSE i \in matching_issues : \A j \in matching_issues : i <= j]

\* C14: the mentions get_prs_to_deploy collects come only from the body and
\* the comments of the first issue of the list whose title starts with
\* "Deploy Request: {today}", the issue get_deploy_issue_number returns the
\* number of; a further issue with that prefix contributes no mention and
\* its comments are not fetched.
C14_first_deploy_issue_only ==
    ( invoked = "get_prs_to_deploy" /\ matching_issues # { } )
    => /\ selected_issue.number = first_deploy_issue(remote.issues, today)
       /\ \A i \in 1..Len(requests) :
            requests[i].endpoint = "comments_url"
              => requests[i].id = selected_issue.comments_url
       /\ ( pc = "done" /\ error = NoError )
          => locals.pr_list
               = parse_message_for_prs(selected_issue.body)
                 \o comment_mentions(selected_issue.comments)

====
